---- MODULE Spec2Model ----
(***************************************************************************)
(* Model of botan::BlockCipher (src/botan/src/block.rs): a safe wrapper    *)
(* around a native block cipher object.  The Rust methods are translated   *)
(* from the source; the native functions they call (botan_block_cipher_..) *)
(* and the helpers of crate::utils are modelled from the engine contract   *)
(* of the specification, instantiated with a small reference cipher.       *)
(***************************************************************************)
EXTENDS Integers, Sequences, FiniteSets, TLC

VARIABLES cipher, heap, last, keyHist

vars == <<cipher, heap, last, keyHist>>

-----------------------------------------------------------------------------
(* Bounds of the model *)

MaxBufLen == 4
MaxKeyLen == 4
MaxNameLen == 2
\* the native objects a failing construction may leave behind
MaxLeaked == 2

\* the model keeps two byte values
Byte == 0..1
ByteMod == Cardinality(Byte)

\* characters of a name; 0 is the NUL byte
NameChar == 0..2

RECURSIVE SeqsUpTo(_, _)
SeqsUpTo(S, n) ==
    IF n = 0 THEN {<<>>}
    ELSE LET shorter == SeqsUpTo(S, n - 1)
         IN  shorter \cup {Append(s, x) : s \in {t \in shorter : Len(t) = n - 1}, x \in S}

Buffers == SeqsUpTo(Byte, MaxBufLen)
Keys == SeqsUpTo(Byte, MaxKeyLen)
Names == SeqsUpTo(NameChar, MaxNameLen)

-----------------------------------------------------------------------------
(* The native library: return codes and the registry of algorithms *)

BOTAN_FFI_SUCCESS == 0
BOTAN_FFI_ERROR_EXCEPTION_THROWN == -20
BOTAN_FFI_ERROR_KEY_NOT_SET == -33
BOTAN_FFI_ERROR_INVALID_KEY_LENGTH == -34
BOTAN_FFI_ERROR_NOT_IMPLEMENTED == -40
BOTAN_FFI_ERROR_INVALID_OBJECT == -50

\* Error::from_rc: the error kind of a native return code
from_rc(rc) ==
    CASE rc = BOTAN_FFI_ERROR_KEY_NOT_SET -> "KeyNotSet"
      [] rc = BOTAN_FFI_ERROR_INVALID_KEY_LENGTH -> "InvalidKeyLength"
      [] rc = BOTAN_FFI_ERROR_NOT_IMPLEMENTED -> "NotImplemented"
      [] rc = BOTAN_FFI_ERROR_INVALID_OBJECT -> "InvalidObjectState"
      [] rc = BOTAN_FFI_ERROR_EXCEPTION_THROWN -> "ExceptionThrown"
      [] OTHER -> "Unknown"

\* the closed set of registered algorithms: name |-> parameters
Registry ==
    ( <<1>>    :> [block_size |-> 2, min |-> 2, max |-> 4, step |-> 2] ) @@
    ( <<2, 1>> :> [block_size |-> 3, min |-> 1, max |-> 2, step |-> 1] )

Registered == DOMAIN Registry

\* the null handle
NullObj == 0

EmptyHeap == [h \in {} |-> 0]

NoCipher ==
    [obj |-> NullObj, block_size |-> 0, min_keylen |-> 0, max_keylen |-> 0, mod_keylen |-> 0]

\* make_cstr: a Rust string becomes a C string unless it holds a NUL byte
make_cstr(name) ==
    IF \E i \in 1..Len(name) : name[i] = 0
    THEN [ok |-> FALSE, err |-> "ConversionError"]
    ELSE [ok |-> TRUE, err |-> "Ok"]

\* a fresh handle: the live handles are 1..n
NewHandle(h) == Cardinality(DOMAIN h) + 1

botan_block_cipher_init(h, name) ==
    IF name \in Registered
    THEN LET o == NewHandle(h)
         IN  [rc |-> BOTAN_FFI_SUCCESS, obj |-> o,
              heap |-> h @@ (o :> [alg |-> name, ks |-> <<>>])]
    ELSE [rc |-> BOTAN_FFI_ERROR_NOT_IMPLEMENTED, obj |-> NullObj, heap |-> h]

botan_block_cipher_destroy(h, obj) ==
    [o \in DOMAIN h \ {obj} |-> h[o]]

botan_block_cipher_block_size(h, obj) ==
    IF obj \in DOMAIN h THEN Registry[h[obj].alg].block_size
    ELSE BOTAN_FFI_ERROR_INVALID_OBJECT

botan_block_cipher_get_keyspec(h, obj) ==
    IF obj \in DOMAIN h
    THEN LET a == Registry[h[obj].alg]
         IN  [rc |-> BOTAN_FFI_SUCCESS, min |-> a.min, max |-> a.max, step |-> a.step]
    ELSE [rc |-> BOTAN_FFI_ERROR_INVALID_OBJECT, min |-> 0, max |-> 0, step |-> 0]

\* the key lengths an algorithm accepts
valid_keylength(a, len) ==
    /\ a.min <= len
    /\ len <= a.max
    /\ (len - a.min) % a.step = 0

RECURSIVE SumSeq(_)
SumSeq(s) == IF s = <<>> THEN 0 ELSE Head(s) + SumSeq(Tail(s))

\* the key schedule the reference cipher derives from a raw key
key_schedule(key) == << (SumSeq(key) + Len(key)) % ByteMod >>

has_keying_material(o) == o.ks # <<>>

botan_block_cipher_set_key(h, obj, key) ==
    IF obj \notin DOMAIN h THEN [rc |-> BOTAN_FFI_ERROR_INVALID_OBJECT, heap |-> h]
    ELSE IF ~valid_keylength(Registry[h[obj].alg], Len(key))
    THEN [rc |-> BOTAN_FFI_ERROR_INVALID_KEY_LENGTH, heap |-> h]
    ELSE [rc |-> BOTAN_FFI_SUCCESS,
          heap |-> [h EXCEPT ![obj].ks = key_schedule(key)]]

botan_block_cipher_clear(h, obj) ==
    IF obj \notin DOMAIN h THEN [rc |-> BOTAN_FFI_ERROR_INVALID_OBJECT, heap |-> h]
    ELSE [rc |-> BOTAN_FFI_SUCCESS, heap |-> [h EXCEPT ![obj].ks = <<>>]]

\* the reference cipher: rotate the block by one byte and add the schedule
\* and the position to each byte
encrypt_n(ks, bs, buf, blocks) ==
    [i \in 1..Len(buf) |->
        IF i > blocks * bs THEN buf[i]
        ELSE LET base == ((i - 1) \div bs) * bs
                 j == i - base
             IN  (buf[base + (j % bs) + 1] + ks[1] + j) % ByteMod]

\* the inverse transform of the reference cipher
decrypt_n(ks, bs, buf, blocks) ==
    [i \in 1..Len(buf) |->
        IF i > blocks * bs THEN buf[i]
        ELSE LET base == ((i - 1) \div bs) * bs
                 t == i - base
                 j == ((t - 2) % bs) + 1
             IN  (buf[base + j] - ks[1] - j) % ByteMod]

botan_block_cipher_encrypt_blocks(h, obj, buf, blocks) ==
    IF obj \notin DOMAIN h THEN [rc |-> BOTAN_FFI_ERROR_INVALID_OBJECT, buf |-> buf]
    ELSE IF ~has_keying_material(h[obj])
    THEN [rc |-> BOTAN_FFI_ERROR_KEY_NOT_SET, buf |-> buf]
    ELSE [rc |-> BOTAN_FFI_SUCCESS,
          buf |-> encrypt_n(h[obj].ks, Registry[h[obj].alg].block_size, buf, blocks)]

botan_block_cipher_decrypt_blocks(h, obj, buf, blocks) ==
    IF obj \notin DOMAIN h THEN [rc |-> BOTAN_FFI_ERROR_INVALID_OBJECT, buf |-> buf]
    ELSE IF ~has_keying_material(h[obj])
    THEN [rc |-> BOTAN_FFI_ERROR_KEY_NOT_SET, buf |-> buf]
    ELSE [rc |-> BOTAN_FFI_SUCCESS,
          buf |-> decrypt_n(h[obj].ks, Registry[h[obj].alg].block_size, buf, blocks)]

\* botan_call!: a zero return code is Ok, any other is Error::from_rc
botan_call(rc) == IF rc = 0 THEN "Ok" ELSE from_rc(rc)

-----------------------------------------------------------------------------
(* The methods of BlockCipher *)


\* new with the key specification cached in the wrong order (max and step swapped)
new_swapped_keyspec(h, name) ==
    LET cstr == make_cstr(name)
        init == botan_block_cipher_init(h, name)
        rc   == botan_block_cipher_block_size(init.heap, init.obj)
        spec == botan_block_cipher_get_keyspec(init.heap, init.obj)
    IN  IF ~cstr.ok
        THEN [res |-> cstr.err, cipher |-> NoCipher, heap |-> h]
        ELSE IF init.rc # 0
        THEN [res |-> from_rc(init.rc), cipher |-> NoCipher, heap |-> init.heap]
        ELSE IF rc < 0
        THEN [res |-> from_rc(rc), cipher |-> NoCipher, heap |-> init.heap]
        ELSE IF spec.rc # 0
        THEN [res |-> from_rc(spec.rc), cipher |-> NoCipher, heap |-> init.heap]
        ELSE [res |-> "Ok",
              cipher |-> [obj |-> init.obj, block_size |-> rc,
                          min_keylen |-> spec.min, max_keylen |-> spec.step,
                          mod_keylen |-> spec.max],
              heap |-> init.heap]

\* new that does not check the result of botan_block_cipher_init
new_unchecked_init(h, name) ==
    LET cstr == make_cstr(name)
        init == botan_block_cipher_init(h, name)
        rc   == botan_block_cipher_block_size(init.heap, init.obj)
        spec == botan_block_cipher_get_keyspec(init.heap, init.obj)
    IN  IF ~cstr.ok
        THEN [res |-> cstr.err, cipher |-> NoCipher, heap |-> h]
        ELSE IF rc < 0
        THEN [res |-> from_rc(rc), cipher |-> NoCipher, heap |-> init.heap]
        ELSE IF spec.rc # 0
        THEN [res |-> from_rc(spec.rc), cipher |-> NoCipher, heap |-> init.heap]
        ELSE [res |-> "Ok",
              cipher |-> [obj |-> init.obj, block_size |-> rc,
                          min_keylen |-> spec.min, max_keylen |-> spec.max,
                          mod_keylen |-> spec.step],
              heap |-> init.heap]

\* new that caches the status code of the key specification query as the
\* block size
new_block_size_from_status(h, name) ==
    LET cstr == make_cstr(name)
        init == botan_block_cipher_init(h, name)
        rc   == botan_block_cipher_block_size(init.heap, init.obj)
        spec == botan_block_cipher_get_keyspec(init.heap, init.obj)
    IN  IF ~cstr.ok
        THEN [res |-> cstr.err, cipher |-> NoCipher, heap |-> h]
        ELSE IF init.rc # 0
        THEN [res |-> from_rc(init.rc), cipher |-> NoCipher, heap |-> init.heap]
        ELSE IF rc < 0
        THEN [res |-> from_rc(rc), cipher |-> NoCipher, heap |-> init.heap]
        ELSE IF spec.rc # 0
        THEN [res |-> from_rc(spec.rc), cipher |-> NoCipher, heap |-> init.heap]
        ELSE [res |-> "Ok",
              cipher |-> [obj |-> init.obj, block_size |-> spec.rc,
                          min_keylen |-> spec.min, max_keylen |-> spec.max,
                          mod_keylen |-> spec.step],
              heap |-> init.heap]

\* BlockCipher::new
new(h, name) ==
    LET cstr == make_cstr(name)
        init == botan_block_cipher_init(h, name)
        rc   == botan_block_cipher_block_size(init.heap, init.obj)
        spec == botan_block_cipher_get_keyspec(init.heap, init.obj)
    IN  IF ~cstr.ok
        THEN [res |-> cstr.err, cipher |-> NoCipher, heap |-> h]
        ELSE IF init.rc # 0
        THEN [res |-> from_rc(init.rc), cipher |-> NoCipher, heap |-> init.heap]
        ELSE IF rc < 0
        THEN [res |-> from_rc(rc), cipher |-> NoCipher, heap |-> init.heap]
        ELSE IF spec.rc # 0
        THEN [res |-> from_rc(spec.rc), cipher |-> NoCipher, heap |-> init.heap]
        ELSE [res |-> "Ok",
              cipher |-> [obj |-> init.obj, block_size |-> rc,
                          min_keylen |-> spec.min, max_keylen |-> spec.max,
                          mod_keylen |-> spec.step],
              heap |-> init.heap]


\* block_size that returns the wrong cached field
block_size_from_min_keylen(self) == [res |-> "Ok", ret |-> <<self.min_keylen>>]

\* the native queries new makes after botan_block_cipher_init
Faults == {"block_size", "get_keyspec"}

\* BlockCipher::new when the native query named by fault fails on the object
\* botan_block_cipher_init has just made
new_query_failing(h, name, fault) ==
    LET cstr == make_cstr(name)
        init == botan_block_cipher_init(h, name)
        rc   == IF fault = "block_size" THEN BOTAN_FFI_ERROR_EXCEPTION_THROWN
                ELSE botan_block_cipher_block_size(init.heap, init.obj)
        spec == IF fault = "get_keyspec"
                THEN [rc |-> BOTAN_FFI_ERROR_EXCEPTION_THROWN, min |-> 0, max |-> 0, step |-> 0]
                ELSE botan_block_cipher_get_keyspec(init.heap, init.obj)
    IN  IF ~cstr.ok
        THEN [res |-> cstr.err, cipher |-> NoCipher, heap |-> h]
        ELSE IF init.rc # 0
        THEN [res |-> from_rc(init.rc), cipher |-> NoCipher, heap |-> init.heap]
        ELSE IF rc < 0
        THEN [res |-> from_rc(rc), cipher |-> NoCipher, heap |-> init.heap]
        ELSE IF spec.rc # 0
        THEN [res |-> from_rc(spec.rc), cipher |-> NoCipher, heap |-> init.heap]
        ELSE [res |-> "Ok",
              cipher |-> [obj |-> init.obj, block_size |-> rc,
                          min_keylen |-> spec.min, max_keylen |-> spec.max,
                          mod_keylen |-> spec.step],
              heap |-> init.heap]

\* BlockCipher::block_size
block_size(self) == [res |-> "Ok", ret |-> <<self.block_size>>]

\* KeySpec::new
KeySpec_new(min, max, step) == [res |-> "Ok", ret |-> <<min, max, step>>]

\* BlockCipher::key_spec
key_spec(self) == KeySpec_new(self.min_keylen, self.max_keylen, self.mod_keylen)


\* set_key that clears the object before installing the new key
set_key_clear_first(self, h, key) ==
    LET c == botan_block_cipher_clear(h, self.obj)
        r == botan_block_cipher_set_key(c.heap, self.obj, key)
    IN  [res |-> botan_call(r.rc), heap |-> r.heap]


\* set_key that leaves a schedule already installed in place
set_key_keeping_old(self, h, key) ==
    LET r == botan_block_cipher_set_key(h, self.obj, key)
    IN  IF r.rc = 0 /\ has_keying_material(h[self.obj])
        THEN [res |-> "Ok", heap |-> h]
        ELSE [res |-> botan_call(r.rc), heap |-> r.heap]

\* BlockCipher::set_key
set_key(self, h, key) ==
    LET r == botan_block_cipher_set_key(h, self.obj, key)
    IN  [res |-> botan_call(r.rc), heap |-> r.heap]


\* encrypt_in_place that drops the return code of the native call
encrypt_in_place_ignoring_rc(self, h, buf) ==
    IF self.block_size = 0 THEN [res |-> "Panic", buf |-> buf]
    ELSE IF Len(buf) % self.block_size # 0 THEN [res |-> "InvalidInput", buf |-> buf]
    ELSE LET blocks == Len(buf) \div self.block_size
             r == botan_block_cipher_encrypt_blocks(h, self.obj, buf, blocks)
         IN  [res |-> "Ok", buf |-> r.buf]

\* encrypt_in_place that transforms the whole blocks before it checks the length
encrypt_in_place_check_after(self, h, buf) ==
    IF self.block_size = 0 THEN [res |-> "Panic", buf |-> buf]
    ELSE LET blocks == Len(buf) \div self.block_size
             r == botan_block_cipher_encrypt_blocks(h, self.obj, buf, blocks)
         IN  IF Len(buf) % self.block_size # 0 THEN [res |-> "InvalidInput", buf |-> r.buf]
             ELSE [res |-> botan_call(r.rc), buf |-> r.buf]


\* encrypt_in_place that refuses an empty buffer
encrypt_in_place_rejecting_empty(self, h, buf) ==
    IF self.block_size = 0 THEN [res |-> "Panic", buf |-> buf]
    ELSE IF Len(buf) = 0 \/ Len(buf) % self.block_size # 0
    THEN [res |-> "InvalidInput", buf |-> buf]
    ELSE LET blocks == Len(buf) \div self.block_size
             r == botan_block_cipher_encrypt_blocks(h, self.obj, buf, blocks)
         IN  [res |-> botan_call(r.rc), buf |-> r.buf]

\* encrypt_in_place that passes a block count of at most one
encrypt_in_place_first_block_only(self, h, buf) ==
    IF self.block_size = 0 THEN [res |-> "Panic", buf |-> buf]
    ELSE IF Len(buf) % self.block_size # 0 THEN [res |-> "InvalidInput", buf |-> buf]
    ELSE LET blocks == IF Len(buf) > 0 THEN 1 ELSE 0
             r == botan_block_cipher_encrypt_blocks(h, self.obj, buf, blocks)
         IN  [res |-> botan_call(r.rc), buf |-> r.buf]


\* encrypt_in_place that returns early, without the native call, on a buffer
\* of zero bytes
encrypt_in_place_skipping_zero(self, h, buf) ==
    IF self.block_size = 0 THEN [res |-> "Panic", buf |-> buf]
    ELSE IF Len(buf) % self.block_size # 0 THEN [res |-> "InvalidInput", buf |-> buf]
    ELSE IF \A i \in 1..Len(buf) : buf[i] = 0 THEN [res |-> "Ok", buf |-> buf]
    ELSE LET blocks == Len(buf) \div self.block_size
             r == botan_block_cipher_encrypt_blocks(h, self.obj, buf, blocks)
         IN  [res |-> botan_call(r.rc), buf |-> r.buf]

\* BlockCipher::encrypt_in_place; a zero block size makes the remainder panic
encrypt_in_place(self, h, buf) ==
    IF self.block_size = 0 THEN [res |-> "Panic", buf |-> buf]
    ELSE IF Len(buf) % self.block_size # 0 THEN [res |-> "InvalidInput", buf |-> buf]
    ELSE LET blocks == Len(buf) \div self.block_size
             r == botan_block_cipher_encrypt_blocks(h, self.obj, buf, blocks)
         IN  [res |-> botan_call(r.rc), buf |-> r.buf]


\* encrypt_blocks that returns the copy whatever the in-place call returned
encrypt_blocks_unchecked(self, h, input) ==
    LET ivec == input
        r == encrypt_in_place(self, h, ivec)
    IN  [res |-> "Ok", ret |-> r.buf, input |-> input]

\* BlockCipher::encrypt_blocks
encrypt_blocks(self, h, input) ==
    LET ivec == input
        r == encrypt_in_place(self, h, ivec)
    IN  IF r.res # "Ok" THEN [res |-> r.res, ret |-> <<>>, input |-> input]
        ELSE [res |-> "Ok", ret |-> r.buf, input |-> input]


\* decrypt_in_place that calls the native encryption
decrypt_in_place_encrypting(self, h, buf) ==
    IF self.block_size = 0 THEN [res |-> "Panic", buf |-> buf]
    ELSE IF Len(buf) % self.block_size # 0 THEN [res |-> "InvalidInput", buf |-> buf]
    ELSE LET blocks == Len(buf) \div self.block_size
             r == botan_block_cipher_encrypt_blocks(h, self.obj, buf, blocks)
         IN  [res |-> botan_call(r.rc), buf |-> r.buf]

\* decrypt_in_place that calls the native function before it checks the length
decrypt_in_place_call_first(self, h, buf) ==
    IF self.block_size = 0 THEN [res |-> "Panic", buf |-> buf]
    ELSE LET blocks == Len(buf) \div self.block_size
             r == botan_block_cipher_decrypt_blocks(h, self.obj, buf, blocks)
         IN  IF r.rc # 0 THEN [res |-> from_rc(r.rc), buf |-> r.buf]
             ELSE IF Len(buf) % self.block_size # 0
             THEN [res |-> "InvalidInput", buf |-> buf]
             ELSE [res |-> "Ok", buf |-> r.buf]

\* BlockCipher::decrypt_in_place
decrypt_in_place(self, h, buf) ==
    IF self.block_size = 0 THEN [res |-> "Panic", buf |-> buf]
    ELSE IF Len(buf) % self.block_size # 0 THEN [res |-> "InvalidInput", buf |-> buf]
    ELSE LET blocks == Len(buf) \div self.block_size
             r == botan_block_cipher_decrypt_blocks(h, self.obj, buf, blocks)
         IN  [res |-> botan_call(r.rc), buf |-> r.buf]

\* BlockCipher::decrypt_blocks
decrypt_blocks(self, h, input) ==
    LET ivec == input
        r == decrypt_in_place(self, h, ivec)
    IN  IF r.res # "Ok" THEN [res |-> r.res, ret |-> <<>>, input |-> input]
        ELSE [res |-> "Ok", ret |-> r.buf, input |-> input]


\* clear that returns Ok without calling the native library
clear_without_call(self, h) == [res |-> "Ok", heap |-> h]

\* BlockCipher::clear
clear(self, h) ==
    LET r == botan_block_cipher_clear(h, self.obj)
    IN  [res |-> botan_call(r.rc), heap |-> r.heap]


\* a BlockCipher without Drop: the native object is never destroyed
drop_without_destroy(self, h) == h

\* Drop for BlockCipher: botan_impl_drop! destroys the native object
drop(self, h) == botan_block_cipher_destroy(h, self.obj)

-----------------------------------------------------------------------------
(* The state machine.  cipher is the caller's BlockCipher value (NoCipher   *)
(* when none is constructed), heap the native objects alive, last the       *)
(* record of the most recent call: its operation, arguments, the caller's   *)
(* buffer after it, its return value and result, and the key history before *)
(* it.  keyHist names the most recent successful set_key or clear.          *)

Call(op, name, arg, buf, ret, res) ==
    [op |-> op, name |-> name, arg |-> arg, buf |-> buf, ret |-> ret, res |-> res,
     was |-> keyHist]

Init ==
    /\ cipher = NoCipher
    /\ heap = EmptyHeap
    /\ keyHist = "none"
    /\ last = [op |-> "init", name |-> <<>>, arg |-> <<>>, buf |-> <<>>, ret |-> <<>>,
               res |-> "Ok", was |-> "none"]

Constructed == cipher.obj # NullObj

New(name) ==
    /\ ~Constructed
    /\ LET r == new(heap, name)
       IN  /\ cipher' = r.cipher
           /\ heap' = r.heap
           /\ last' = Call("new", name, <<>>, <<>>, <<>>, r.res)
    /\ keyHist' = "none"

Drop ==
    /\ Constructed
    /\ heap' = drop(cipher, heap)
    /\ cipher' = NoCipher
    /\ last' = Call("drop", <<>>, <<>>, <<>>, <<>>, "Ok")
    /\ keyHist' = "none"

BlockSize ==
    /\ Constructed
    /\ LET r == block_size(cipher)
       IN  last' = Call("block_size", <<>>, <<>>, <<>>, r.ret, r.res)
    /\ UNCHANGED <<cipher, heap, keyHist>>

KeySpec ==
    /\ Constructed
    /\ LET r == key_spec(cipher)
       IN  last' = Call("key_spec", <<>>, <<>>, <<>>, r.ret, r.res)
    /\ UNCHANGED <<cipher, heap, keyHist>>

SetKey(key) ==
    /\ Constructed
    /\ LET r == set_key(cipher, heap, key)
       IN  /\ heap' = r.heap
           /\ last' = Call("set_key", <<>>, key, <<>>, <<>>, r.res)
           /\ keyHist' = IF r.res = "Ok" THEN "set_key" ELSE keyHist
    /\ UNCHANGED cipher

Clear ==
    /\ Constructed
    /\ LET r == clear(cipher, heap)
       IN  /\ heap' = r.heap
           /\ last' = Call("clear", <<>>, <<>>, <<>>, <<>>, r.res)
           /\ keyHist' = IF r.res = "Ok" THEN "clear" ELSE keyHist
    /\ UNCHANGED cipher


\* encrypt_in_place that wipes the key once it has used it
EncryptInPlace_wiping(buf) ==
    /\ Constructed
    /\ LET r == encrypt_in_place(cipher, heap, buf)
       IN  last' = Call("encrypt_in_place", <<>>, buf, r.buf, <<>>, r.res)
    /\ heap' = botan_block_cipher_clear(heap, cipher.obj).heap
    /\ UNCHANGED <<cipher, keyHist>>

EncryptInPlace(buf) ==
    /\ Constructed
    /\ LET r == encrypt_in_place(cipher, heap, buf)
       IN  last' = Call("encrypt_in_place", <<>>, buf, r.buf, <<>>, r.res)
    /\ UNCHANGED <<cipher, heap, keyHist>>

DecryptInPlace(buf) ==
    /\ Constructed
    /\ LET r == decrypt_in_place(cipher, heap, buf)
       IN  last' = Call("decrypt_in_place", <<>>, buf, r.buf, <<>>, r.res)
    /\ UNCHANGED <<cipher, heap, keyHist>>

EncryptBlocks(input) ==
    /\ Constructed
    /\ LET r == encrypt_blocks(cipher, heap, input)
       IN  last' = Call("encrypt_blocks", <<>>, input, r.input, r.ret, r.res)
    /\ UNCHANGED <<cipher, heap, keyHist>>

DecryptBlocks(input) ==
    /\ Constructed
    /\ LET r == decrypt_blocks(cipher, heap, input)
       IN  last' = Call("decrypt_blocks", <<>>, input, r.input, r.ret, r.res)
    /\ UNCHANGED <<cipher, heap, keyHist>>

Next ==
    \/ \E name \in Names : New(name)
    \/ Drop
    \/ BlockSize
    \/ KeySpec
    \/ \E key \in Keys : SetKey(key)
    \/ Clear
    \/ \E buf \in Buffers : EncryptInPlace(buf)
    \/ \E buf \in Buffers : DecryptInPlace(buf)
    \/ \E input \in Buffers : EncryptBlocks(input)
    \/ \E input \in Buffers : DecryptBlocks(input)

Spec == Init /\ [][Next]_vars

\* BlockCipher::new with a native query that fails after the object is made
NewFaulted(name, fault) ==
    /\ ~Constructed
    /\ Cardinality(DOMAIN heap) < MaxLeaked
    /\ LET r == new_query_failing(heap, name, fault)
       IN  /\ cipher' = r.cipher
           /\ heap' = r.heap
           /\ last' = Call("new", name, <<>>, <<>>, <<>>, r.res)
    /\ keyHist' = "none"

NextFault ==
    \/ Next
    \/ \E name \in Names, fault \in Faults : NewFaulted(name, fault)

\* the program with native queries that may fail during construction
FaultSpec == Init /\ [][NextFault]_vars

-----------------------------------------------------------------------------
(* Properties.  The error kinds of the specification are those of the code: *)
(* NoKeySet is KeyNotSet, InvalidInputLength is InvalidInput,               *)
(* UnknownAlgorithm is NotImplemented.                                      *)

EncDecOps == {"encrypt_in_place", "decrypt_in_place", "encrypt_blocks", "decrypt_blocks"}
InPlaceOps == {"encrypt_in_place", "decrypt_in_place"}

\* the buffers whose length is a multiple of the engine's block size
AlignedBuffers == {p \in Buffers : cipher.block_size > 0 /\ Len(p) % cipher.block_size = 0}

\* the engine refuses to transform any block-aligned buffer for want of a key
Unkeyed ==
    \A p \in AlignedBuffers :
        /\ encrypt_in_place(cipher, heap, p) = [res |-> "KeyNotSet", buf |-> p]
        /\ decrypt_in_place(cipher, heap, p) = [res |-> "KeyNotSet", buf |-> p]

\* C1: an encryption or decryption of a block-aligned buffer (the empty one
\* included) succeeds exactly when the most recent successful set_key or
\* clear on the engine was a set_key, and fails with KeyNotSet otherwise.
C1_KeyedIffLastKeyOpIsSetKey ==
    (last.op \in EncDecOps /\ last.arg \in AlignedBuffers) =>
        /\ last.res = "Ok" <=> last.was = "set_key"
        /\ last.res # "Ok" => last.res = "KeyNotSet"

\* an encryption of a non-empty aligned buffer refused after a clear
C1_Witness ==
    /\ last.op = "encrypt_in_place"
    /\ last.arg \in AlignedBuffers
    /\ Len(last.arg) > 0
    /\ last.was = "clear"
    /\ last.res = "KeyNotSet"

\* C2: on a keyed engine, decrypting the result of a successful encryption
\* of a block-aligned plaintext gives the plaintext back, in place and with
\* the copying variants.
C2_RoundTrip ==
    /\ (last.op = "encrypt_in_place" /\ last.res = "Ok") =>
            decrypt_in_place(cipher, heap, last.buf) = [res |-> "Ok", buf |-> last.arg]
    /\ (last.op = "encrypt_blocks" /\ last.res = "Ok") =>
            decrypt_blocks(cipher, heap, last.ret) =
                [res |-> "Ok", ret |-> last.arg, input |-> last.ret]

\* a two-block plaintext was encrypted to a different ciphertext
C2_Witness ==
    /\ last.op = "encrypt_in_place"
    /\ last.res = "Ok"
    /\ Len(last.arg) = 2 * cipher.block_size
    /\ last.buf # last.arg

\* C3: set_key succeeds exactly when the key length lies between min and max
\* of the engine's key_spec and exceeds min by a multiple of step, and fails
\* with InvalidKeyLength for every other length, whatever the key bytes.
C3_SetKeyChecksLengthOnly ==
    last.op = "set_key" =>
        LET ks == key_spec(cipher).ret
            len == Len(last.arg)
        IN  /\ last.res = "Ok" <=>
                  (ks[1] <= len /\ len <= ks[2] /\ (len - ks[1]) % ks[3] = 0)
            /\ last.res # "Ok" => last.res = "InvalidKeyLength"

\* a key whose length lies strictly between min and max was refused
C3_Witness ==
    /\ last.op = "set_key"
    /\ last.res = "InvalidKeyLength"
    /\ cipher.min_keylen < Len(last.arg)
    /\ Len(last.arg) < cipher.max_keylen

\* the buffers of exactly one block
SingleBlocks(bs) == {p \in Buffers : Len(p) = bs}

\* C4: a set_key that fails reports InvalidKeyLength and leaves the engine as
\* it was: an engine without a key still refuses to encrypt, and an engine
\* with a key keeps its schedule, encrypts every block to the ciphertext it
\* gave before the call, and its encryptions still decrypt to the plaintext.
C4_FailedSetKeyKeepsState ==
    [][ (last'.op = "set_key" /\ last'.res # "Ok") =>
            /\ last'.res = "InvalidKeyLength"
            /\ cipher' = cipher
            /\ heap' = heap
            /\ keyHist' = keyHist
            /\ \A p \in SingleBlocks(cipher'.block_size) :
                /\ encrypt_in_place(cipher', heap', p) = encrypt_in_place(cipher, heap, p)
                /\ IF last'.was = "set_key"
                   THEN decrypt_in_place(cipher', heap',
                                         encrypt_in_place(cipher', heap', p).buf) =
                            [res |-> "Ok", buf |-> p]
                   ELSE encrypt_in_place(cipher', heap', p).res = "KeyNotSet"
      ]_vars

\* a keyed engine refused a key of a wrong length and still encrypts
C4_Witness ==
    /\ last.op = "set_key"
    /\ last.res = "InvalidKeyLength"
    /\ last.was = "set_key"
    /\ \E p \in AlignedBuffers :
        /\ Len(p) > 0
        /\ encrypt_in_place(cipher, heap, p).res = "Ok"

\* C5: when encrypt_in_place or decrypt_in_place returns an error, the error
\* is KeyNotSet or InvalidInput and the caller's buffer holds the bytes it
\* held before the call.
C5_FailBeforeMutate ==
    (last.op \in InPlaceOps /\ last.res # "Ok") =>
        /\ last.res \in {"KeyNotSet", "InvalidInput"}
        /\ last.buf = last.arg

\* a keyed engine refused a buffer that holds a whole block and a partial one
C5_Witness ==
    /\ last.op = "encrypt_in_place"
    /\ last.res = "InvalidInput"
    /\ last.was = "set_key"
    /\ Len(last.arg) > cipher.block_size
    /\ last.buf = last.arg

\* C6: a buffer whose length is no multiple of the block size is refused with
\* InvalidInput, with and without a key installed, and the call changes
\* nothing of the engine.
C6_UnalignedIsInvalidInput ==
    [][ (last'.op \in EncDecOps /\ Len(last'.arg) % cipher'.block_size # 0) =>
            /\ last'.res = "InvalidInput"
            /\ cipher' = cipher
            /\ heap' = heap
            /\ keyHist' = keyHist
      ]_vars

\* an engine without a key refused a misaligned buffer with InvalidInput
C6_Witness ==
    /\ last.op = "decrypt_in_place"
    /\ Len(last.arg) % cipher.block_size # 0
    /\ last.was # "set_key"
    /\ ~has_keying_material(heap[cipher.obj])
    /\ last.res = "InvalidInput"

\* C7: clear succeeds with and without a key installed and leaves the engine
\* without a key; a second clear succeeds too and changes nothing.
C7_ClearIdempotent ==
    last.op = "clear" =>
        /\ last.res = "Ok"
        /\ keyHist = "clear"
        /\ ~has_keying_material(heap[cipher.obj])
        /\ Unkeyed
        /\ clear(cipher, heap) = [res |-> "Ok", heap |-> heap]

\* a clear of an engine that had a key
C7_Witness ==
    /\ last.op = "clear"
    /\ last.was = "set_key"
    /\ last.res = "Ok"
    /\ Unkeyed

\* C8: encrypt_blocks and decrypt_blocks leave the caller's input as it was,
\* fail with the error of the in-place variant, and on success return a
\* buffer of the input's length equal to what the in-place variant makes of
\* a copy of the input.
C8_BlocksWrapInPlace ==
    /\ last.op = "encrypt_blocks" =>
        LET r == encrypt_in_place(cipher, heap, last.arg)
        IN  /\ last.buf = last.arg
            /\ last.res = r.res
            /\ last.res = "Ok" => (last.ret = r.buf /\ Len(last.ret) = Len(last.arg))
    /\ last.op = "decrypt_blocks" =>
        LET r == decrypt_in_place(cipher, heap, last.arg)
        IN  /\ last.buf = last.arg
            /\ last.res = r.res
            /\ last.res = "Ok" => (last.ret = r.buf /\ Len(last.ret) = Len(last.arg))

\* encrypt_blocks returned a ciphertext that differs from its untouched input
C8_Witness ==
    /\ last.op = "encrypt_blocks"
    /\ last.res = "Ok"
    /\ Len(last.arg) > 0
    /\ last.ret # last.arg
    /\ last.buf = last.arg

\* C9 as stated: new succeeds exactly for the registered names, fails with
\* NotImplemented for every other name, and returns an engine without a key.
C9_Original ==
    last.op = "new" =>
        /\ last.res = "Ok" <=> last.name \in Registered
        /\ last.res # "Ok" => last.res = "NotImplemented"
        /\ last.res = "Ok" => (Constructed /\ Unkeyed)

\* C9 amended: new succeeds exactly for the registered names and returns an
\* engine without a key; for a name that is not registered it fails with
\* ConversionError when the name holds a NUL byte and with NotImplemented
\* when it holds none.
C9_NewUnknownOrMalformed ==
    last.op = "new" =>
        /\ last.res = "Ok" <=> last.name \in Registered
        /\ last.res # "Ok" =>
            last.res = IF make_cstr(last.name).ok THEN "NotImplemented"
                       ELSE "ConversionError"
        /\ last.res = "Ok" =>
            /\ Constructed
            /\ keyHist = "none"
            /\ ~has_keying_material(heap[cipher.obj])
            /\ Unkeyed

\* new refused a name that holds a NUL byte before it reached the library
C9_Witness ==
    /\ last.op = "new"
    /\ ~make_cstr(last.name).ok
    /\ last.name \notin Registered
    /\ last.res = "ConversionError"
    /\ ~Constructed

\* C10: every constructed engine has a block size of at least 1, block_size()
\* returns it with Ok, and no encryption or decryption divides by zero.
C10_BlockSizePositive ==
    /\ Constructed =>
        /\ cipher.block_size >= 1
        /\ block_size(cipher) = [res |-> "Ok", ret |-> <<cipher.block_size>>]
    /\ last.res # "Panic"
    /\ last.op = "block_size" => (last.res = "Ok" /\ last.ret[1] >= 1)

\* block_size() was called on a constructed engine
C10_Witness ==
    /\ Constructed
    /\ last.op = "block_size"
    /\ last.res = "Ok"
    /\ last.ret = <<cipher.block_size>>

\* C11: block_size() and key_spec() return, in every state of a constructed
\* engine, the values the library gave for the algorithm at construction;
\* no set_key, clear, encryption or decryption changes them.
C11_CachedValuesStable ==
    [][ /\ Constructed' =>
            LET a == Registry[heap'[cipher'.obj].alg]
            IN  /\ block_size(cipher') = [res |-> "Ok", ret |-> <<a.block_size>>]
                /\ key_spec(cipher') = [res |-> "Ok", ret |-> <<a.min, a.max, a.step>>]
                /\ last'.op = "block_size" => last'.ret = <<a.block_size>>
                /\ last'.op = "key_spec" => last'.ret = <<a.min, a.max, a.step>>
        /\ (Constructed /\ Constructed') =>
            /\ block_size(cipher') = block_size(cipher)
            /\ key_spec(cipher') = key_spec(cipher)
            /\ heap'[cipher'.obj].alg = heap[cipher.obj].alg
      ]_vars

\* block_size() answered on an engine that holds a key
C11_Witness ==
    /\ Constructed
    /\ last.op = "block_size"
    /\ last.was = "set_key"
    /\ has_keying_material(heap[cipher.obj])
    /\ last.ret = <<Registry[heap[cipher.obj].alg].block_size>>

\* the native objects alive that no BlockCipher value owns
Leaked == DOMAIN heap \ (IF Constructed THEN {cipher.obj} ELSE {})

\* C12: every native object construction acquires is released exactly once,
\* whether new returns an engine that is later dropped or fails after the
\* object was made: the objects alive are the one the engine owns, and
\* none when no engine exists.
C12_HandlesReleasedOnce ==
    /\ Leaked = {}
    /\ Constructed => cipher.obj \in DOMAIN heap

\* C13: on an engine that holds a key, encrypt_in_place of the empty buffer
\* succeeds, leaves the buffer empty and the key installed, and
\* encrypt_in_place of a buffer one byte short of a block fails with
\* InvalidInput.
C13_BoundaryLengths ==
    (last.op = "encrypt_in_place" /\ last.was = "set_key") =>
        /\ Len(last.arg) = 0 =>
            /\ last.res = "Ok"
            /\ last.buf = <<>>
            /\ keyHist = "set_key"
            /\ has_keying_material(heap[cipher.obj])
        /\ Len(last.arg) = cipher.block_size - 1 =>
            /\ last.res = "InvalidInput"
            /\ last.buf = last.arg

\* a keyed engine encrypted the empty buffer
C13_Witness ==
    /\ last.op = "encrypt_in_place"
    /\ last.was = "set_key"
    /\ last.arg = <<>>
    /\ last.res = "Ok"
    /\ has_keying_material(heap[cipher.obj])

\* block i (from 0) of a buffer of blocks of bs bytes
BlockAt(buf, i, bs) == SubSeq(buf, i * bs + 1, (i + 1) * bs)

\* C14: a successful encrypt_in_place or decrypt_in_place transforms exactly
\* len / block_size blocks, and block i of the result is the transform of
\* block i of the input taken alone, so the transform of a concatenation is
\* the concatenation of the transforms.
C14_BlockIndependence ==
    /\ (last.op = "encrypt_in_place" /\ last.res = "Ok") =>
        /\ Len(last.buf) = Len(last.arg)
        /\ \A i \in 0..((Len(last.arg) \div cipher.block_size) - 1) :
            encrypt_in_place(cipher, heap, BlockAt(last.arg, i, cipher.block_size)) =
                [res |-> "Ok", buf |-> BlockAt(last.buf, i, cipher.block_size)]
    /\ (last.op = "decrypt_in_place" /\ last.res = "Ok") =>
        /\ Len(last.buf) = Len(last.arg)
        /\ \A i \in 0..((Len(last.arg) \div cipher.block_size) - 1) :
            decrypt_in_place(cipher, heap, BlockAt(last.arg, i, cipher.block_size)) =
                [res |-> "Ok", buf |-> BlockAt(last.buf, i, cipher.block_size)]

\* two different blocks were encrypted in one call
C14_Witness ==
    /\ last.op = "encrypt_in_place"
    /\ last.res = "Ok"
    /\ Len(last.arg) = 2 * cipher.block_size
    /\ BlockAt(last.arg, 0, cipher.block_size) # BlockAt(last.arg, 1, cipher.block_size)
    /\ BlockAt(last.buf, 0, cipher.block_size) # BlockAt(last.buf, 1, cipher.block_size)

\* an engine of the algorithm of the current one that was constructed and
\* then keyed with key, and with nothing else
OnlyEverKeyed(key) ==
    LET made == new(EmptyHeap, heap[cipher.obj].alg)
    IN  [cipher |-> made.cipher, heap |-> set_key(made.cipher, made.heap, key).heap]

\* C15: after a successful set_key, on an engine that held another key or
\* none, every encryption and decryption gives what an engine that was only
\* ever keyed with the new key gives.
C15_RekeyReplacesSchedule ==
    (last.op = "set_key" /\ last.res = "Ok") =>
        LET fresh == OnlyEverKeyed(last.arg)
        IN  /\ keyHist = "set_key"
            /\ has_keying_material(heap[cipher.obj])
            /\ \A p \in Buffers :
                /\ encrypt_in_place(cipher, heap, p) =
                       encrypt_in_place(fresh.cipher, fresh.heap, p)
                /\ decrypt_in_place(cipher, heap, p) =
                       decrypt_in_place(fresh.cipher, fresh.heap, p)

\* an engine that held a key was given a second one
C15_Witness ==
    /\ last.op = "set_key"
    /\ last.res = "Ok"
    /\ last.was = "set_key"
    /\ heap[cipher.obj].ks = key_schedule(last.arg)

\* C16: an encryption or decryption, whether it succeeds or fails, leaves
\* the engine as it was: the same call on the same input gives the same
\* result again, a keyed engine keeps its schedule and an unkeyed one stays
\* unkeyed; the native object of a live engine changes only in set_key and
\* clear.
C16_EncryptDecryptKeepState ==
    [][ /\ last'.op \in EncDecOps =>
            /\ cipher' = cipher
            /\ heap' = heap
            /\ keyHist' = keyHist
            /\ last'.op = "encrypt_in_place" =>
                encrypt_in_place(cipher', heap', last'.arg) =
                    [res |-> last'.res, buf |-> last'.buf]
            /\ last'.op = "decrypt_in_place" =>
                decrypt_in_place(cipher', heap', last'.arg) =
                    [res |-> last'.res, buf |-> last'.buf]
            /\ last'.op = "encrypt_blocks" =>
                encrypt_blocks(cipher', heap', last'.arg) =
                    [res |-> last'.res, ret |-> last'.ret, input |-> last'.arg]
            /\ last'.op = "decrypt_blocks" =>
                decrypt_blocks(cipher', heap', last'.arg) =
                    [res |-> last'.res, ret |-> last'.ret, input |-> last'.arg]
        /\ (Constructed /\ Constructed' /\ heap' # heap) =>
            last'.op \in {"set_key", "clear"}
      ]_vars

\* a keyed engine encrypted a buffer and still holds its schedule
C16_Witness ==
    /\ last.op = "encrypt_in_place"
    /\ last.res = "Ok"
    /\ Len(last.arg) > 0
    /\ keyHist = "set_key"
    /\ has_keying_material(heap[cipher.obj])
    /\ encrypt_in_place(cipher, heap, last.arg) = [res |-> "Ok", buf |-> last.buf]

\* the native objects that hold a key schedule, and the schedules they hold
KeyedObjects == {o \in DOMAIN heap : has_keying_material(heap[o])}
LiveSchedules == {heap[o].ks : o \in KeyedObjects}

blocks_transformed(self, buf, res) ==
    IF res = "Ok" THEN Len(buf) \div self.block_size ELSE 0

\* C18: the outcome of encrypt_in_place and decrypt_in_place and the number
\* of blocks they transform depend on the key state and the buffer length
\* only: the same call on any buffer of the same length, on the same engine
\* or on the engine keyed with any other accepted key, ends the same way.
C18_OutcomeIndependentOfSecrets ==
    last.op \in InPlaceOps =>
        \A q \in {b \in Buffers : Len(b) = Len(last.arg)} :
            LET run(h) == IF last.op = "encrypt_in_place"
                          THEN encrypt_in_place(cipher, h, q)
                          ELSE decrypt_in_place(cipher, h, q)
                same(r) == /\ r.res = last.res
                           /\ blocks_transformed(cipher, q, r.res) =
                                  blocks_transformed(cipher, last.arg, last.res)
            IN  /\ same(run(heap))
                /\ last.was = "set_key" =>
                    \A k \in Keys :
                        LET rekeyed == set_key(cipher, heap, k)
                        IN  rekeyed.res = "Ok" => same(run(rekeyed.heap))

\* an unkeyed engine refused an aligned buffer of zero bytes
C18_Witness ==
    /\ last.op = "encrypt_in_place"
    /\ last.was # "set_key"
    /\ Len(last.arg) = cipher.block_size
    /\ \A i \in 1..Len(last.arg) : last.arg[i] = 0
    /\ last.res = "KeyNotSet"

====
